---- MODULE Spec2Model ----
(***************************************************************************)
(* Model of the Kie.ai MCP server: the SQLite task store (TaskDatabase),   *)
(* the HTTP client (KieAiClient) and the tool handlers (KieAiMcpServer).   *)
(*                                                                         *)
(* Three specifications share the variables:                               *)
(*   Spec       the server: concurrent tool invocations, each suspended at *)
(*              every await (HTTP exchange, store access);                 *)
(*   SpecStore  the TaskDatabase class driven directly by an arbitrary     *)
(*              caller (createTask / getTask / updateTask / list);         *)
(*   SpecList   the server with a store that grows past the advertised     *)
(*              list maximum.                                              *)
(***************************************************************************)
EXTENDS Integers, Sequences, FiniteSets, TLC

VARIABLES tasks, clock, procs, dbRes

vars == <<tasks, clock, procs, dbRes>>

(***************************************************************************)
(* Bounds of the model.                                                    *)
(***************************************************************************)
NumTaskIds == 1
NumTools == 3
NumStoreIds == 2
MaxClock == 1
ListRows == 101

\* Task identifiers the upstream hands out (0 stands for "no identifier").
TaskIds == 1..NumTaskIds

\* Two tool invocations can be in progress at the same time.  Invocation "a"
\* runs any tool; "b", the one that runs concurrently with it, runs the
\* generation tools, the only handlers that write to the store.
Procs == {"a", "b"}
AnyToolProcs == {"a"}

(***************************************************************************)
(* JavaScript values.                                                      *)
(***************************************************************************)
Undef == "undefined"
Null == "null"

Truthy(v) == v \notin {Undef, Null, ""}

\* `v || null`
OrNull(v) == IF Truthy(v) THEN v ELSE Null

Statuses == {"pending", "processing", "completed", "failed"}

(***************************************************************************)
(* Provider tags and status endpoints.                                     *)
(***************************************************************************)
ApiTypes ==
  {"nano-banana", "nano-banana-edit", "gpt4o-image", "flux-kontext-generate",
   "flux-kontext-edit", "midjourney-image", "dalle3-image", "ideogram-image",
   "stable-diffusion3-image", "playground-image", "veo3", "runway-aleph-video",
   "luma-video", "sora2-video", "runway-gen3-video", "kling-video",
   "pika-video", "haiper-video"}

\* Handlers that pass result_url: response.data.imageUrl to createTask.
ImageApiTypes ==
  {"nano-banana", "nano-banana-edit", "gpt4o-image", "flux-kontext-generate",
   "flux-kontext-edit", "midjourney-image", "dalle3-image", "ideogram-image",
   "stable-diffusion3-image", "playground-image"}

endpointMap ==
  [t \in ApiTypes |->
     CASE t = "nano-banana" -> <<"/playground/recordInfo">>
       [] t = "nano-banana-edit" -> <<"/playground/recordInfo">>
       [] t = "gpt4o-image" -> <<"/gpt4o-image/record-info">>
       [] t = "flux-kontext-generate" -> <<"/flux/kontext/record-info">>
       [] t = "flux-kontext-edit" -> <<"/flux/kontext/record-info">>
       [] t = "midjourney-image" -> <<"/midjourney/record-info">>
       [] t = "dalle3-image" -> <<"/openai/dalle3/record-info">>
       [] t = "ideogram-image" -> <<"/ideogram/record-info">>
       [] t = "stable-diffusion3-image" -> <<"/stability/sd3/record-info">>
       [] t = "playground-image" ->
            <<"/playground/v3/record-info", "/playground/recordInfo">>
       [] t = "veo3" -> <<"/veo/record-info">>
       [] t = "runway-aleph-video" -> <<"/runway/aleph/record-info">>
       [] t = "luma-video" -> <<"/luma/record-info">>
       [] t = "sora2-video" -> <<"/sora/v2/record-info">>
       [] t = "runway-gen3-video" -> <<"/runway/gen3/record-info">>
       [] t = "kling-video" -> <<"/kling/record-info">>
       [] t = "pika-video" -> <<"/pika/record-info">>
       [] t = "haiper-video" -> <<"/haiper/record-info">>]

defaultFallbacks == <<"/playground/recordInfo", "/veo/record-info">>

\* Mutant: the default fallbacks are put in front of the tag's own endpoints.
endpointsToTryFallbacksFirst(apiType) ==
  IF apiType \in ApiTypes
    THEN defaultFallbacks \o endpointMap[apiType]
    ELSE defaultFallbacks

\* KieAiClient.getTaskStatus, construction of endpointsToTry.
\* apiType is a tag, an unrecognized string, or Undef (no local record).
endpointsToTry(apiType) ==
  IF Truthy(apiType) /\ apiType \in ApiTypes
    THEN endpointMap[apiType] \o defaultFallbacks
    ELSE defaultFallbacks

(***************************************************************************)
(* The task store: table `tasks`, one row per record, in rowid order.      *)
(***************************************************************************)
HasTask(rows, tid) == \E i \in 1..Len(rows) : rows[i].task_id = tid

RowOf(rows, tid) ==
  rows[CHOOSE i \in 1..Len(rows) : rows[i].task_id = tid]

\* Rows matching a task_id, as a sequence (SELECT * ... WHERE task_id = ?).
RowsOf(rows, tid) == SelectSeq(rows, LAMBDA r : r.task_id = tid)

NewRow(rows, taskData, now) ==
  [id |-> Len(rows) + 1,
   task_id |-> taskData.task_id,
   api_type |-> taskData.api_type,
   status |-> taskData.status,
   created_at |-> now,
   updated_at |-> now,
   result_url |-> OrNull(taskData.result_url),
   error_message |-> OrNull(taskData.error_message)]

\* Mutant: the table has no UNIQUE constraint on task_id.
createTaskNoUnique(rows, taskData, now, ioError) ==
  IF ioError
    THEN [err |-> "SQLITE_IOERR", rows |-> rows]
    ELSE [err |-> "", rows |-> Append(rows, NewRow(rows, taskData, now))]

\* Mutant: INSERT OR REPLACE.
createTaskUpsert(rows, taskData, now, ioError) ==
  IF ioError
    THEN [err |-> "SQLITE_IOERR", rows |-> rows]
    ELSE IF HasTask(rows, taskData.task_id)
      THEN [err |-> "",
            rows |-> [i \in 1..Len(rows) |->
                        IF rows[i].task_id = taskData.task_id
                          THEN [NewRow(rows, taskData, now) EXCEPT !.id = i]
                          ELSE rows[i]]]
      ELSE [err |-> "", rows |-> Append(rows, NewRow(rows, taskData, now))]

\* TaskDatabase.createTask: INSERT INTO tasks ..., task_id TEXT UNIQUE.
\* err = "" means the promise resolved, otherwise it rejected with err.
createTask(rows, taskData, now, ioError) ==
  IF ioError
    THEN [err |-> "SQLITE_IOERR", rows |-> rows]
    ELSE IF HasTask(rows, taskData.task_id)
      THEN [err |-> "SQLITE_CONSTRAINT", rows |-> rows]
      ELSE [err |-> "", rows |-> Append(rows, NewRow(rows, taskData, now))]

\* TaskDatabase.getTask: the row as a sequence of length 0 (null) or 1.
getTask(rows, tid, ioError) ==
  IF ioError
    THEN [err |-> "SQLITE_IOERR", row |-> <<>>]
    ELSE [err |-> "",
          row |-> IF HasTask(rows, tid) THEN <<RowOf(rows, tid)>> ELSE <<>>]

\* The SET clauses updateTask builds, besides updated_at.
updateFields(updates) ==
  {f \in {"status", "result_url", "error_message"} : Truthy(updates[f])}

\* Mutant: read-modify-write of the whole record; a field the update does
\* not carry is written as null.
UpdatedRowWholeRecord(r, updates, now) ==
  [r EXCEPT
     !.status = IF Truthy(updates.status) THEN updates.status ELSE @,
     !.result_url = OrNull(updates.result_url),
     !.error_message = OrNull(updates.error_message),
     !.updated_at = now]

\* Mutant: result_url is assigned whenever the update carries the key
\* (updates.result_url !== undefined), whatever its value.
UpdatedRowAssignsPresent(r, updates, now) ==
  [r EXCEPT
     !.status = IF Truthy(updates.status) THEN updates.status ELSE @,
     !.result_url = IF updates.result_url # Undef THEN updates.result_url ELSE @,
     !.error_message =
        IF Truthy(updates.error_message) THEN updates.error_message ELSE @,
     !.updated_at = now]

\* Mutant: a status update keeps the status it replaces in error_message.
UpdatedRowKeepsPrevious(r, updates, now) ==
  [r EXCEPT
     !.status = IF Truthy(updates.status) THEN updates.status ELSE @,
     !.result_url = IF Truthy(updates.result_url) THEN updates.result_url ELSE @,
     !.error_message = IF Truthy(updates.status) THEN r.status ELSE @,
     !.updated_at = now]

UpdatedRow(r, updates, now) ==
  [r EXCEPT
     !.status = IF Truthy(updates.status) THEN updates.status ELSE @,
     !.result_url = IF Truthy(updates.result_url) THEN updates.result_url ELSE @,
     !.error_message =
        IF Truthy(updates.error_message) THEN updates.error_message ELSE @,
     !.updated_at = now]

\* Mutant: no `updateFields.length > 1` guard, the UPDATE always runs and
\* sets at least updated_at.
updateTaskAlwaysTouches(rows, tid, updates, now, ioError) ==
  IF ioError
    THEN [err |-> "SQLITE_IOERR", rows |-> rows]
    ELSE [err |-> "",
          rows |-> [i \in 1..Len(rows) |->
                      IF rows[i].task_id = tid
                        THEN UpdatedRow(rows[i], updates, now)
                        ELSE rows[i]]]

\* TaskDatabase.updateTask: UPDATE tasks SET ... WHERE task_id = ?
\* An UPDATE that matches no row is not an error for SQLite.
updateTask(rows, tid, updates, now, ioError) ==
  IF updateFields(updates) = {}
    THEN [err |-> "", rows |-> rows]
    ELSE IF ioError
      THEN [err |-> "SQLITE_IOERR", rows |-> rows]
      ELSE [err |-> "",
            rows |-> [i \in 1..Len(rows) |->
                        IF rows[i].task_id = tid
                          THEN UpdatedRow(rows[i], updates, now)
                          ELSE rows[i]]]


Min(a, b) == IF a <= b THEN a ELSE b

\* ORDER BY created_at DESC: row i is delivered before row j. Rows with equal
\* created_at come in an order SQL leaves open; tieAsc picks rowid order.
Before(rows, i, j, tieAsc) ==
  \/ rows[i].created_at > rows[j].created_at
  \/ /\ rows[i].created_at = rows[j].created_at
     /\ IF tieAsc THEN i <= j ELSE i >= j

RECURSIVE OrderByCreatedDesc(_, _, _)
OrderByCreatedDesc(rows, S, tieAsc) ==
  IF S = {}
    THEN <<>>
    ELSE LET first == CHOOSE i \in S : \A j \in S : Before(rows, i, j, tieAsc)
         IN <<rows[first]>> \o OrderByCreatedDesc(rows, S \ {first}, tieAsc)

\* LIMIT ?: a negative limit means no limit in SQLite.
SqlLimit(seq, limit) ==
  IF limit < 0 THEN seq ELSE SubSeq(seq, 1, Min(limit, Len(seq)))

\* TaskDatabase.getAllTasks
getAllTasks(rows, limit, tieAsc, ioError) ==
  IF ioError
    THEN [err |-> "SQLITE_IOERR", rows |-> <<>>]
    ELSE [err |-> "",
          rows |-> SqlLimit(OrderByCreatedDesc(rows, 1..Len(rows), tieAsc), limit)]

\* TaskDatabase.getTasksByStatus
getTasksByStatus(rows, status, limit, tieAsc, ioError) ==
  IF ioError
    THEN [err |-> "SQLITE_IOERR", rows |-> <<>>]
    ELSE [err |-> "",
          rows |-> SqlLimit(
                     OrderByCreatedDesc(rows,
                       {i \in 1..Len(rows) : rows[i].status = status}, tieAsc),
                     limit)]

(***************************************************************************)
(* HTTP exchanges.                                                         *)
(***************************************************************************)
TransportFailures == {"timeout", "network", "non2xx", "malformed"}

\* A JSON body is <<>> (null) or <<b>> with b one of these records.
Body(kind, taskId, imageUrl, state) ==
  [kind |-> kind, taskId |-> taskId, imageUrl |-> imageUrl, state |-> state]

\* Mutant: a 2xx answer that reports no task is thrown like a failed exchange.
makeRequestRejectsEmpty(outcome, body) ==
  IF outcome \in TransportFailures
    THEN [err |-> outcome, data |-> <<>>]
    ELSE IF body = <<>> \/ body[1].kind = "not_found"
      THEN [err |-> "not_found", data |-> <<>>]
      ELSE [err |-> "", data |-> body]

\* KieAiClient.makeRequest: fetch rejecting (network error, timeout),
\* response.json() rejecting (malformed body) and !response.ok all end in
\* `throw new Error("Request failed: ...")`; otherwise the parsed body is
\* returned as it is.  err = "" means returned.
makeRequest(outcome, body) ==
  IF outcome \in TransportFailures
    THEN [err |-> outcome, data |-> <<>>]
    ELSE [err |-> "", data |-> body]

(***************************************************************************)
(* Tool invocations.  Each invocation is a process that is suspended at    *)
(* every await; pc names the await it is suspended at.                     *)
(***************************************************************************)
NoResult ==
  [kind |-> "none", local_task |-> <<>>, api_response |-> <<>>,
   tasks |-> <<>>, task_id |-> 0, error |-> ""]

IdleProc ==
  [op |-> "idle", pc |-> "idle", argsValid |-> TRUE, tag |-> "", task_id |-> 0,
   limit |-> <<>>,
   status |-> Undef, response |-> <<>>, localTask |-> <<>>,
   endpoints |-> <<>>, idx |-> 0, lastError |-> "", exchanges |-> <<>>,
   result |-> NoResult]

\* { success: true, ... } / { success: false, error } / a thrown McpError.
SuccessEnvelope == [NoResult EXCEPT !.kind = "success"]
FailureEnvelope(message) == [NoResult EXCEPT !.kind = "failure", !.error = message]
Thrown(code) == [NoResult EXCEPT !.kind = "thrown", !.error = code]

Sent(endpoint) == [endpoint |-> endpoint, outcome |-> "inflight", body |-> <<>>]

\* The log of the exchanges of an invocation, with the last one answered:
\* "ok" with the body the upstream sent, or "failed".
Answered(exchanges, outcome, body) ==
  [exchanges EXCEPT ![Len(exchanges)] =
     [@ EXCEPT !.outcome = IF outcome = "ok" THEN "ok" ELSE "failed",
               !.body = IF outcome = "ok" THEN body ELSE <<>>]]

ToolOrder ==
  <<"gpt4o-image", "veo3", "playground-image", "nano-banana",
    "nano-banana-edit", "flux-kontext-generate", "flux-kontext-edit",
    "midjourney-image", "dalle3-image", "ideogram-image",
    "stable-diffusion3-image", "runway-aleph-video", "luma-video",
    "sora2-video", "runway-gen3-video", "kling-video", "pika-video",
    "haiper-video">>

\* The generation tools exercised.
Tools == {ToolOrder[i] : i \in 1..Min(NumTools, Len(ToolOrder))}

Init ==
  /\ tasks = <<>>
  /\ clock = 0
  /\ procs = [p \in Procs |-> IdleProc]
  /\ dbRes = [op |-> "none", task_id |-> 0, updates |-> <<>>, err |-> "",
              rows |-> <<>>]

Free(p) == procs[p].pc \in {"idle", "done"}

Done(pr, result) == [pr EXCEPT !.pc = "done", !.result = result]

\* CallToolRequestSchema handler, default branch.
StartUnknownTool(p) ==
  /\ Free(p)
  /\ procs' = [procs EXCEPT ![p] =
       Done([IdleProc EXCEPT !.op = "unknown"], Thrown("MethodNotFound"))]
  /\ UNCHANGED <<tasks, clock, dbRes>>

\* Mutant: the arguments are not validated before the submission.
StartGenerateNoValidation(p, tag, valid) ==
  /\ Free(p)
  /\ procs' = [procs EXCEPT ![p] =
       [IdleProc EXCEPT !.op = "generate", !.tag = tag, !.pc = "submit",
                        !.argsValid = valid,
                        !.exchanges = <<Sent("generate")>>]]
  /\ UNCHANGED <<tasks, clock, dbRes>>

\* handleGenerate<Tool>, up to the await of client.generate<Tool>.
\* A ZodError of Schema.parse leaves the handler and the dispatcher rethrows
\* it as McpError(InternalError).
StartGenerate(p, tag, valid) ==
  /\ Free(p)
  /\ procs' = [procs EXCEPT ![p] =
       IF valid
         THEN [IdleProc EXCEPT !.op = "generate", !.tag = tag, !.pc = "submit",
                               !.exchanges = <<Sent("generate")>>]
         ELSE Done([IdleProc EXCEPT !.op = "generate", !.tag = tag,
                                    !.argsValid = FALSE],
                   Thrown("InternalError"))]
  /\ UNCHANGED <<tasks, clock, dbRes>>

\* Mutant: a failed submission is sent once more.
handleGenerateAfterSubmitRetries(pr, res) ==
  IF res.err # ""
    THEN IF Len(pr.exchanges) < 2
           THEN [pr EXCEPT !.exchanges = Append(@, Sent("generate"))]
           ELSE Done(pr, FailureEnvelope(res.err))
    ELSE IF res.data = <<>>
      THEN Done(pr, FailureEnvelope("TypeError"))
      ELSE IF res.data[1].taskId # 0
        THEN [pr EXCEPT !.pc = "createTask", !.response = res.data]
        ELSE Done([pr EXCEPT !.response = res.data],
                  [SuccessEnvelope EXCEPT !.api_response = res.data])

\* handleGenerate<Tool>, from the answer of the submission to the await of
\* db.createTask or to the return.
handleGenerateAfterSubmit(pr, res) ==
  IF res.err # ""
    THEN Done(pr, FailureEnvelope(res.err))
    ELSE IF res.data = <<>>
      THEN Done(pr, FailureEnvelope("TypeError"))
      ELSE IF res.data[1].taskId # 0
        THEN [pr EXCEPT !.pc = "createTask", !.response = res.data]
        ELSE Done([pr EXCEPT !.response = res.data],
                  [SuccessEnvelope EXCEPT !.api_response = res.data])

SubmitResponse(p, outcome, body) ==
  /\ procs[p].pc = "submit"
  /\ procs' = [procs EXCEPT ![p] =
       handleGenerateAfterSubmit(
         [procs[p] EXCEPT !.exchanges = Answered(@, outcome, body)],
         makeRequest(outcome, body))]
  /\ UNCHANGED <<tasks, clock, dbRes>>

\* Mutant: a handler copied from the veo3 one that kept its tag.
TaskDataOfCopiedTag(pr) ==
  [task_id |-> pr.response[1].taskId,
   api_type |-> "veo3",
   status |-> "pending",
   result_url |-> IF pr.tag \in ImageApiTypes
                    THEN pr.response[1].imageUrl ELSE Undef,
   error_message |-> Undef]

\* The record a generation handler hands to db.createTask.
TaskDataOf(pr) ==
  [task_id |-> pr.response[1].taskId,
   api_type |-> pr.tag,
   status |-> "pending",
   result_url |-> IF pr.tag \in ImageApiTypes
                    THEN pr.response[1].imageUrl ELSE Undef,
   error_message |-> Undef]

\* Mutant: db.createTask is awaited outside the try block, its rejection
\* leaves the handler.
CreateTaskStepUncaught(p, ioError) ==
  /\ procs[p].pc = "createTask"
  /\ LET r == createTask(tasks, TaskDataOf(procs[p]), clock, ioError)
     IN /\ tasks' = r.rows
        /\ procs' = [procs EXCEPT ![p] =
             IF r.err # ""
               THEN Done(@, Thrown(r.err))
               ELSE Done(@, [SuccessEnvelope EXCEPT
                               !.task_id = procs[p].response[1].taskId,
                               !.api_response = procs[p].response])]
  /\ UNCHANGED <<clock, dbRes>>

\* handleGenerate<Tool>, from db.createTask to the return.
CreateTaskStep(p, ioError) ==
  /\ procs[p].pc = "createTask"
  /\ LET r == createTask(tasks, TaskDataOf(procs[p]), clock, ioError)
     IN /\ tasks' = r.rows
        /\ procs' = [procs EXCEPT ![p] =
             IF r.err # ""
               THEN Done(@, FailureEnvelope(r.err))
               ELSE Done(@, [SuccessEnvelope EXCEPT
                               !.task_id = procs[p].response[1].taskId,
                               !.api_response = procs[p].response])]
  /\ UNCHANGED <<clock, dbRes>>


\* handleGetTaskStatus, up to the await of db.getTask.
StartGetTaskStatus(p, tid, valid) ==
  /\ Free(p)
  /\ procs' = [procs EXCEPT ![p] =
       IF valid
         THEN [IdleProc EXCEPT !.op = "get_task_status", !.task_id = tid,
                               !.pc = "getTask"]
         ELSE Done([IdleProc EXCEPT !.op = "get_task_status",
                                    !.argsValid = FALSE],
                   Thrown("InvalidParams"))]
  /\ UNCHANGED <<tasks, clock, dbRes>>

\* localTask?.api_type
ApiTypeOf(localTask) ==
  IF localTask = <<>> THEN Undef ELSE localTask[1].api_type

\* Mutant: the answer of the upstream is dropped.
handleGetTaskStatusReturnLocalOnly(localTask, apiResponse) ==
  [SuccessEnvelope EXCEPT !.local_task = localTask]

\* handleGetTaskStatus, the envelope it returns.
handleGetTaskStatusReturn(localTask, apiResponse) ==
  [SuccessEnvelope EXCEPT !.local_task = localTask,
                          !.api_response = apiResponse]

\* Mutant: the degraded answer loses the local record.
handleGetTaskStatusCatchDropsLocal(pr, error) ==
  Done(pr, handleGetTaskStatusReturn(<<>>, <<>>))

\* Mutant: the error of client.getTaskStatus reaches the outer catch.
handleGetTaskStatusCatchRethrows(pr, error) ==
  Done(pr, FailureEnvelope(error))

\* handleGetTaskStatus, the inner catch: apiResponse stays null.
handleGetTaskStatusCatch(pr, error) ==
  Done(pr, handleGetTaskStatusReturn(pr.localTask, <<>>))

\* Mutant: the loop gives up after the first failed exchange.
getTaskStatusAfterExchangeNoFallback(pr, res) ==
  IF res.err = ""
    THEN Done(pr, handleGetTaskStatusReturn(pr.localTask, res.data))
    ELSE handleGetTaskStatusCatch([pr EXCEPT !.lastError = res.err], res.err)

\* Mutant: the loop keeps probing after a successful exchange and returns
\* the answer of the last candidate that answered.
getTaskStatusAfterExchangeProbesAll(pr, res) ==
  LET pr1 == IF res.err = ""
               THEN [pr EXCEPT !.response = res.data, !.lastError = ""]
               ELSE [pr EXCEPT !.lastError = res.err]
  IN IF pr.idx < Len(pr.endpoints)
       THEN [pr1 EXCEPT !.idx = pr.idx + 1,
                        !.exchanges = Append(@, Sent(pr.endpoints[pr.idx + 1]))]
       ELSE IF pr1.lastError = ""
         THEN Done(pr1, handleGetTaskStatusReturn(pr.localTask, pr1.response))
         ELSE handleGetTaskStatusCatch(pr1, pr1.lastError)

\* Mutant: after the last candidate failed the loop waits for it again
\* instead of throwing.
getTaskStatusAfterExchangeHangs(pr, res) ==
  IF res.err = ""
    THEN Done(pr, handleGetTaskStatusReturn(pr.localTask, res.data))
    ELSE IF pr.idx < Len(pr.endpoints)
      THEN [pr EXCEPT !.lastError = res.err,
                      !.idx = pr.idx + 1,
                      !.exchanges = Append(@, Sent(pr.endpoints[pr.idx + 1]))]
      ELSE [pr EXCEPT !.lastError = res.err]

\* KieAiClient.getTaskStatus, the loop over endpointsToTry, from the answer
\* of one exchange to the next await or to the return of the handler.
getTaskStatusAfterExchange(pr, res) ==
  IF res.err = ""
    THEN Done(pr, handleGetTaskStatusReturn(pr.localTask, res.data))
    ELSE IF pr.idx < Len(pr.endpoints)
      THEN [pr EXCEPT !.lastError = res.err,
                      !.idx = pr.idx + 1,
                      !.exchanges = Append(@, Sent(pr.endpoints[pr.idx + 1]))]
      ELSE handleGetTaskStatusCatch([pr EXCEPT !.lastError = res.err], res.err)

\* Mutant: the candidates are raced, Promise.any over endpointsToTry.
GetTaskStepRacesAll(p, ioError) ==
  /\ procs[p].pc = "getTask"
  /\ LET r == getTask(tasks, procs[p].task_id, ioError)
         eps == endpointsToTry(ApiTypeOf(r.row))
     IN procs' = [procs EXCEPT ![p] =
          IF r.err # ""
            THEN Done(@, FailureEnvelope(r.err))
            ELSE [@ EXCEPT !.pc = "status", !.localTask = r.row,
                           !.endpoints = eps, !.idx = Len(eps),
                           !.exchanges = [i \in 1..Len(eps) |-> Sent(eps[i])]]]
  /\ UNCHANGED <<tasks, clock, dbRes>>

\* Mutant: the provider is guessed from the task identifier when it is not
\* the first one issued.
GetTaskStepDerivesFromId(p, ioError) ==
  /\ procs[p].pc = "getTask"
  /\ LET r == getTask(tasks, procs[p].task_id, ioError)
         eps == IF procs[p].task_id > 1
                  THEN endpointsToTry("gpt4o-image")
                  ELSE endpointsToTry(ApiTypeOf(r.row))
     IN procs' = [procs EXCEPT ![p] =
          IF r.err # ""
            THEN Done(@, FailureEnvelope(r.err))
            ELSE [@ EXCEPT !.pc = "status", !.localTask = r.row,
                           !.endpoints = eps, !.idx = 1,
                           !.exchanges = <<Sent(eps[1])>>]]
  /\ UNCHANGED <<tasks, clock, dbRes>>

\* handleGetTaskStatus, from db.getTask to the first await of
\* client.getTaskStatus (the request to the first candidate).
GetTaskStep(p, ioError) ==
  /\ procs[p].pc = "getTask"
  /\ LET r == getTask(tasks, procs[p].task_id, ioError)
         eps == endpointsToTry(ApiTypeOf(r.row))
     IN procs' = [procs EXCEPT ![p] =
          IF r.err # ""
            THEN Done(@, FailureEnvelope(r.err))
            ELSE [@ EXCEPT !.pc = "status", !.localTask = r.row,
                           !.endpoints = eps, !.idx = 1,
                           !.exchanges = <<Sent(eps[1])>>]]
  /\ UNCHANGED <<tasks, clock, dbRes>>

\* Mutant: the handler writes the status the upstream reports to the store.
StatusResponseReconciles(p, outcome, body) ==
  /\ procs[p].pc = "status"
  /\ procs' = [procs EXCEPT ![p] =
       getTaskStatusAfterExchange(
         [procs[p] EXCEPT !.exchanges = Answered(@, outcome, body)],
         makeRequest(outcome, body))]
  /\ tasks' = IF outcome = "ok" /\ body # <<>> /\ body[1].kind = "status"
                THEN updateTask(tasks, procs[p].task_id,
                                [status |-> body[1].state,
                                 result_url |-> body[1].imageUrl,
                                 error_message |-> Undef],
                                clock, FALSE).rows
                ELSE tasks
  /\ UNCHANGED <<clock, dbRes>>

StatusResponse(p, outcome, body) ==
  /\ procs[p].pc = "status"
  /\ procs' = [procs EXCEPT ![p] =
       getTaskStatusAfterExchange(
         [procs[p] EXCEPT !.exchanges = Answered(@, outcome, body)],
         makeRequest(outcome, body))]
  /\ UNCHANGED <<tasks, clock, dbRes>>

\* handleListTasks, up to the await of the store: const { limit = 20, status }.
StartListTasks(p, limitArg, status) ==
  /\ Free(p)
  /\ procs' = [procs EXCEPT ![p] =
       [IdleProc EXCEPT !.op = "list_tasks", !.pc = "list",
                        !.limit = limitArg, !.status = status]]
  /\ UNCHANGED <<tasks, clock, dbRes>>

DefaultListLimit == 20

\* list_tasks inputSchema: limit.maximum
ServerMaxLimit == 100

\* handleListTasks, the store call.
handleListTasksQuery(rows, limitArg, status, tieAsc, ioError) ==
  LET limit == IF limitArg = <<>> THEN DefaultListLimit ELSE limitArg[1]
  IN IF Truthy(status)
       THEN getTasksByStatus(rows, status, limit, tieAsc, ioError)
       ELSE getAllTasks(rows, limit, tieAsc, ioError)

\* handleListTasks, from the store call to the return.
ListStep(p, tieAsc, ioError) ==
  /\ procs[p].pc = "list"
  /\ LET r == handleListTasksQuery(tasks, procs[p].limit, procs[p].status,
                                   tieAsc, ioError)
     IN procs' = [procs EXCEPT ![p] =
          IF r.err # ""
            THEN Done(@, FailureEnvelope(r.err))
            ELSE Done(@, [SuccessEnvelope EXCEPT !.tasks = r.rows])]
  /\ UNCHANGED <<tasks, clock, dbRes>>

\* handleGetVeo1080pVideo, up to the await of client.getVeo1080pVideo.
StartGetVeo1080pVideo(p, tid, valid) ==
  /\ Free(p)
  /\ procs' = [procs EXCEPT ![p] =
       IF valid
         THEN [IdleProc EXCEPT !.op = "get_veo3_1080p_video", !.task_id = tid,
                               !.pc = "upgrade",
                               !.exchanges = <<Sent("/veo/get-1080p-video")>>]
         ELSE Done([IdleProc EXCEPT !.op = "get_veo3_1080p_video",
                                    !.argsValid = FALSE],
                   Thrown("InvalidParams"))]
  /\ UNCHANGED <<tasks, clock, dbRes>>

\* handleGetVeo1080pVideo, from the answer to the return.
handleGetVeo1080pVideoAfterCall(pr, res) ==
  IF res.err # ""
    THEN Done(pr, FailureEnvelope(res.err))
    ELSE Done(pr, [SuccessEnvelope EXCEPT !.task_id = pr.task_id,
                                          !.api_response = res.data])

UpgradeResponse(p, outcome, body) ==
  /\ procs[p].pc = "upgrade"
  /\ procs' = [procs EXCEPT ![p] =
       handleGetVeo1080pVideoAfterCall(
         [procs[p] EXCEPT !.exchanges = Answered(@, outcome, body)],
         makeRequest(outcome, body))]
  /\ UNCHANGED <<tasks, clock, dbRes>>

Tick ==
  /\ clock < MaxClock
  /\ clock' = clock + 1
  /\ UNCHANGED <<tasks, procs, dbRes>>

(***************************************************************************)
(* The server: what the upstream can answer and what a caller can send.    *)
(***************************************************************************)
SubmitBodies(tag) ==
  {<<>>, <<Body("app_error", 0, Undef, "")>>}
    \cup {<<Body("task", t, u, "")>> :
            t \in TaskIds,
            u \in IF tag \in ImageApiTypes THEN {Undef, "url"} ELSE {Undef}}

StatusBodies ==
  {<<>>,
   <<Body("not_found", 0, Undef, "")>>,
   <<Body("app_error", 0, Undef, "")>>,
   <<Body("status", 0, Undef, "processing")>>,
   <<Body("status", 0, "url", "completed")>>}

UpgradeBodies ==
  {<<Body("upgrade", 0, "url", "")>>, <<Body("app_error", 0, Undef, "")>>}

ListLimitArgs == {<<>>, <<-1>>, <<1>>}

Next ==
  \/ \E p \in AnyToolProcs : StartUnknownTool(p)
  \/ \E p \in Procs, t \in Tools, v \in BOOLEAN : StartGenerate(p, t, v)
  \/ \E p \in Procs, f \in TransportFailures : SubmitResponse(p, f, <<>>)
  \/ \E p \in Procs : \E b \in SubmitBodies(procs[p].tag) :
        SubmitResponse(p, "ok", b)
  \/ \E p \in Procs, e \in BOOLEAN : CreateTaskStep(p, e)
  \/ \E p \in AnyToolProcs, t \in TaskIds, v \in BOOLEAN :
        StartGetTaskStatus(p, t, v)
  \/ \E p \in Procs, e \in BOOLEAN : GetTaskStep(p, e)
  \/ \E p \in Procs, f \in TransportFailures : StatusResponse(p, f, <<>>)
  \/ \E p \in Procs, b \in StatusBodies : StatusResponse(p, "ok", b)
  \/ \E p \in AnyToolProcs, l \in ListLimitArgs, s \in {Undef, "pending"} :
        StartListTasks(p, l, s)
  \/ \E p \in Procs, a \in BOOLEAN, e \in BOOLEAN : ListStep(p, a, e)
  \/ \E p \in AnyToolProcs, t \in TaskIds, v \in BOOLEAN :
        StartGetVeo1080pVideo(p, t, v)
  \/ \E p \in Procs, f \in TransportFailures : UpgradeResponse(p, f, <<>>)
  \/ \E p \in Procs, b \in UpgradeBodies : UpgradeResponse(p, "ok", b)

Spec == Init /\ [][Next]_vars

\* The server in an environment that answers: the store lookup of a
\* get_task_status returns or rejects, and every status request is answered,
\* fails or times out (AbortSignal.timeout).
SpecLive ==
  /\ Spec
  /\ \A p \in Procs :
       /\ WF_vars(\E e \in BOOLEAN : GetTaskStep(p, e))
       /\ WF_vars(\/ \E f \in TransportFailures : StatusResponse(p, f, <<>>)
                  \/ \E b \in StatusBodies : StatusResponse(p, "ok", b))

(***************************************************************************)
(* The store driven directly: one action per TaskDatabase method.  dbRes   *)
(* is the last call: its arguments and what it returned (err = "" when its *)
(* promise resolved).                                                      *)
(***************************************************************************)
StoreIds == 1..NumStoreIds

TaskDataSet ==
  [task_id : StoreIds, api_type : {"veo3", "gpt4o-image"}, status : {"pending"},
   result_url : {Undef}, error_message : {Undef}]

UpdatesSet ==
  [status : {Undef, "completed"}, result_url : {Undef, Null, "", "url"},
   error_message : {Undef, "boom"}]

DbCreateTask(taskData, ioError) ==
  LET r == createTask(tasks, taskData, clock, ioError)
  IN /\ tasks' = r.rows
     /\ dbRes' = [op |-> "createTask", task_id |-> taskData.task_id,
                  updates |-> <<>>, err |-> r.err, rows |-> <<>>]
     /\ UNCHANGED <<clock, procs>>

DbGetTask(tid, ioError) ==
  LET r == getTask(tasks, tid, ioError)
  IN /\ dbRes' = [op |-> "getTask", task_id |-> tid, updates |-> <<>>,
                  err |-> r.err, rows |-> r.row]
     /\ UNCHANGED <<tasks, clock, procs>>

DbUpdateTask(tid, updates, ioError) ==
  LET r == updateTask(tasks, tid, updates, clock, ioError)
  IN /\ tasks' = r.rows
     /\ dbRes' = [op |-> "updateTask", task_id |-> tid,
                  updates |-> <<updates>>, err |-> r.err, rows |-> <<>>]
     /\ UNCHANGED <<clock, procs>>

NextStore ==
  \/ Tick
  \/ \E d \in TaskDataSet, e \in BOOLEAN : DbCreateTask(d, e)
  \/ \E t \in StoreIds, e \in BOOLEAN : DbGetTask(t, e)
  \/ \E t \in StoreIds, u \in UpdatesSet : DbUpdateTask(t, u, FALSE)
  \/ \E t \in StoreIds : DbUpdateTask(t, [status |-> "completed",
        result_url |-> Undef, error_message |-> Undef], TRUE)

SpecStore == Init /\ [][NextStore]_vars

(***************************************************************************)
(* The server with a store that outgrows the list maximum: one caller      *)
(* submits veo3 generations, each answered with a fresh identifier, and    *)
(* lists the tasks.                                                        *)
(***************************************************************************)
ListCallerLimits == {<<>>, <<-1>>, <<0>>, <<100>>, <<500>>}

FreshBody == <<Body("task", Len(tasks) + 1, Undef, "")>>

NextList ==
  \/ /\ Len(tasks) < ListRows
     /\ StartGenerate("a", "veo3", TRUE)
  \/ SubmitResponse("a", "ok", FreshBody)
  \/ CreateTaskStep("a", FALSE)
  \/ \E l \in ListCallerLimits, s \in {Undef, "pending"} :
        StartListTasks("a", l, s)
  \/ ListStep("a", TRUE, FALSE)

SpecList == Init /\ [][NextList]_vars

(***************************************************************************)
(* The server with a few records created at the same and at different      *)
(* times: one caller submits veo3 generations, time passes, and the caller *)
(* lists the tasks.                                                        *)
(***************************************************************************)
NumOrderRows == 3

OrderLimits == {<<>>, <<0>>, <<1>>, <<2>>}

NextOrder ==
  \/ Tick
  \/ /\ Len(tasks) < NumOrderRows
     /\ StartGenerate("a", "veo3", TRUE)
  \/ SubmitResponse("a", "ok", FreshBody)
  \/ CreateTaskStep("a", FALSE)
  \/ \E l \in OrderLimits, s \in {Undef, "pending", "completed"} :
        StartListTasks("a", l, s)
  \/ \E tieAsc \in BOOLEAN : ListStep("a", tieAsc, FALSE)

SpecOrder == Init /\ [][NextOrder]_vars

(***************************************************************************)
(* Two status resolutions side by side, for different task identifiers:    *)
(* caller "a" submits generations that are recorded under fresh            *)
(* identifiers, and both callers ask for the status of any identifier.     *)
(***************************************************************************)
NumPairIds == 2

PairTags == {"veo3", "gpt4o-image"}

PairBodies ==
  {<<Body("not_found", 0, Undef, "")>>,
   <<Body("status", 0, "url", "completed")>>}

NextPair ==
  \/ \E t \in PairTags :
        /\ Len(tasks) < NumPairIds
        /\ StartGenerate("a", t, TRUE)
  \/ SubmitResponse("a", "ok", FreshBody)
  \/ CreateTaskStep("a", FALSE)
  \/ \E p \in Procs, t \in 1..NumPairIds : StartGetTaskStatus(p, t, TRUE)
  \/ \E p \in Procs : GetTaskStep(p, FALSE)
  \/ \E p \in Procs, f \in {"timeout", "non2xx"} : StatusResponse(p, f, <<>>)
  \/ \E p \in Procs, b \in PairBodies : StatusResponse(p, "ok", b)

SpecPair == Init /\ [][NextPair]_vars

(***************************************************************************)
(* Concurrent updateTask calls on one record.  A call builds its SET list  *)
(* synchronously and hands one UPDATE statement to SQLite; the statements  *)
(* of the calls in flight run one at a time, in any order.                 *)
(***************************************************************************)
UpdateCallers == {"a", "b"}

ConcurrentUpdates ==
  {[status |-> "processing", result_url |-> Undef, error_message |-> Undef],
   [status |-> "completed", result_url |-> Undef, error_message |-> Undef],
   [status |-> Undef, result_url |-> "url", error_message |-> Undef],
   [status |-> Undef, result_url |-> Undef, error_message |-> "boom"],
   [status |-> "completed", result_url |-> "url", error_message |-> Undef],
   [status |-> Undef, result_url |-> "", error_message |-> Undef]}

InsertedTaskData ==
  [task_id |-> 1, api_type |-> "veo3", status |-> "pending",
   result_url |-> Undef, error_message |-> Undef]

\* updateTask, up to `new Promise(... this.db.run(...))`.
CallUpdateTask(p, tid, updates) ==
  /\ Free(p)
  /\ procs' = [procs EXCEPT ![p] =
       [IdleProc EXCEPT !.op = "updateTask", !.pc = "run", !.task_id = tid,
                        !.response = <<updates>>]]
  /\ UNCHANGED <<tasks, clock, dbRes>>

\* The UPDATE statement of a call in flight runs and its callback resolves
\* the promise.
RunUpdateTask(p) ==
  /\ procs[p].op = "updateTask"
  /\ procs[p].pc = "run"
  /\ LET r == updateTask(tasks, procs[p].task_id, procs[p].response[1],
                         clock, FALSE)
     IN /\ tasks' = r.rows
        /\ dbRes' = [op |-> "updateTask", task_id |-> procs[p].task_id,
                     updates |-> procs[p].response, err |-> r.err,
                     rows |-> <<>>]
        /\ procs' = [procs EXCEPT ![p] = Done(@, SuccessEnvelope)]
  /\ UNCHANGED clock

NextUpdates ==
  \/ /\ tasks = <<>>
     /\ DbCreateTask(InsertedTaskData, FALSE)
  \/ Tick
  \/ \E p \in UpdateCallers, u \in ConcurrentUpdates :
        /\ tasks # <<>>
        /\ CallUpdateTask(p, 1, u)
  \/ \E p \in UpdateCallers : RunUpdateTask(p)

SpecUpdates == Init /\ [][NextUpdates]_vars


(***************************************************************************)
(* Properties.                                                             *)
(***************************************************************************)
\* A get_task_status invocation whose resolution has started: the store
\* lookup returned and the first candidate was requested.
Resolving(pr) == pr.op = "get_task_status" /\ Len(pr.exchanges) > 0
Resolved(pr) == Resolving(pr) /\ pr.pc = "done"

AllFailed(ex) == \A i \in 1..Len(ex) : ex[i].outcome = "failed"

\* C1: a status resolution requests the candidates in list order, each one
\* once, goes on only after a failed exchange, stops at the first exchange
\* that succeeds and returns the payload of that exchange; no candidate after
\* it is requested.
C1_FirstSuccessWins ==
  \A p \in Procs :
    Resolving(procs[p]) =>
      LET pr == procs[p]
          ex == pr.exchanges
          n == Len(ex)
      IN /\ n <= Len(pr.endpoints)
         /\ \A i \in 1..n : ex[i].endpoint = pr.endpoints[i]
         /\ \A i \in 1..(n - 1) : ex[i].outcome = "failed"
         /\ pr.pc = "status" <=> ex[n].outcome = "inflight"
         /\ ex[n].outcome = "ok" => pr.result.api_response = ex[n].body
         /\ ex[n].outcome = "failed" => n = Len(pr.endpoints)

\* 1 canonical + 2 fallback candidates, the canonical one timed out, the
\* first fallback answered: two requests, none to the third candidate.
C1_Witness ==
  \E p \in Procs :
    /\ Resolved(procs[p])
    /\ ApiTypeOf(procs[p].localTask) = "gpt4o-image"
    /\ Len(procs[p].endpoints) = 3
    /\ Len(procs[p].exchanges) = 2
    /\ procs[p].exchanges[1].outcome = "failed"
    /\ procs[p].lastError = "timeout"
    /\ procs[p].exchanges[2].outcome = "ok"
    /\ procs[p].exchanges[2].body # <<>>
    /\ procs[p].result.api_response = procs[p].exchanges[2].body

\* C2: when every candidate exchange failed and the store lookup found a
\* record, get_task_status returns a success envelope that carries that
\* record, as the store holds it, and a null upstream payload.
C2_LocalDegradation ==
  \A p \in Procs :
    (/\ Resolved(procs[p])
     /\ AllFailed(procs[p].exchanges)
     /\ procs[p].localTask # <<>>)
    => /\ procs[p].result.kind = "success"
       /\ procs[p].result.local_task = procs[p].localTask
       /\ procs[p].result.local_task = RowsOf(tasks, procs[p].task_id)
       /\ procs[p].result.api_response = <<>>

C2_Witness ==
  \E p \in Procs :
    /\ Resolved(procs[p])
    /\ Len(procs[p].exchanges) = Len(procs[p].endpoints)
    /\ AllFailed(procs[p].exchanges)
    /\ procs[p].localTask # <<>>
    /\ procs[p].result.kind = "success"
    /\ procs[p].result.local_task # <<>>

EmptyOrNotFound(body) == body = <<>> \/ body[1].kind = "not_found"

\* C3: an exchange answered with a well-formed 2xx response whose payload is
\* null or reports the task as not found is the resolved answer: it is the
\* last request of the resolution and the invocation ends with a success
\* envelope that carries that payload and the local record, null when the
\* lookup found none.
C3_NotFoundIsAnAnswer ==
  \A p \in Procs :
    Resolving(procs[p]) =>
      \A i \in 1..Len(procs[p].exchanges) :
        (/\ procs[p].exchanges[i].outcome = "ok"
         /\ EmptyOrNotFound(procs[p].exchanges[i].body))
        => /\ i = Len(procs[p].exchanges)
           /\ procs[p].pc = "done"
           /\ procs[p].result.kind = "success"
           /\ procs[p].result.api_response = procs[p].exchanges[i].body
           /\ procs[p].result.local_task = procs[p].localTask

\* No local record, the first default endpoint reports the task unknown:
\* the second one is not requested.
C3_Witness ==
  \E p \in Procs :
    /\ Resolved(procs[p])
    /\ procs[p].localTask = <<>>
    /\ Len(procs[p].exchanges) = 1
    /\ Len(procs[p].endpoints) = 2
    /\ procs[p].exchanges[1].outcome = "ok"
    /\ procs[p].exchanges[1].body = <<Body("not_found", 0, Undef, "")>>
    /\ procs[p].result.kind = "success"
    /\ procs[p].result.local_task = <<>>
    /\ procs[p].result.api_response # <<>>


Unique(rows) ==
  \A i, j \in 1..Len(rows) : rows[i].task_id = rows[j].task_id => i = j

\* A step of the store that is a createTask call.
IsCreateTaskStep ==
  /\ dbRes'.op = "createTask"
  /\ dbRes' # dbRes \/ tasks' # tasks

\* C4: the store never holds two records with the same task_id, and a
\* createTask whose task_id is already stored is rejected with an error and
\* leaves every record as it was.
C4_DuplicateInsertFails ==
  /\ [](Unique(tasks))
  /\ [][(IsCreateTaskStep /\ HasTask(tasks, dbRes'.task_id))
          => (dbRes'.err # "" /\ tasks' = tasks)]_vars

\* A rejected insert of a task_id whose record was updated since its
\* creation: the updated record is still there.
C4_Witness ==
  /\ dbRes.op = "createTask"
  /\ dbRes.err = "SQLITE_CONSTRAINT"
  /\ Len(RowsOf(tasks, dbRes.task_id)) = 1
  /\ RowOf(tasks, dbRes.task_id).status = "completed"

ListDone(pr) ==
  pr.op = "list_tasks" /\ pr.pc = "done" /\ pr.result.kind = "success"

\* C5: list_tasks returns at most 100 records, whatever limit the caller
\* supplied.
C5_ListAtMostMax ==
  \A p \in Procs :
    ListDone(procs[p]) => Len(procs[p].result.tasks) <= ServerMaxLimit

\* C6: once the store lookup has returned, get_task_status reports an error
\* only when every candidate exchange failed and the lookup found no record:
\* whenever some exchange succeeded (whatever it reported) or a local record
\* was found, the invocation ends with a success envelope.
C6_ErrorOnlyWhenNothingKnown ==
  \A p \in Procs :
    (/\ Resolved(procs[p])
     /\ \/ \E i \in 1..Len(procs[p].exchanges) :
              procs[p].exchanges[i].outcome = "ok"
        \/ procs[p].localTask # <<>>)
    => procs[p].result.kind = "success"

\* A local record exists, the tag's own endpoints failed and a fallback
\* answered that the task is unknown: no error.
C6_Witness ==
  \E p \in Procs :
    LET pr == procs[p]  n == Len(pr.exchanges)
    IN /\ Resolved(pr)
       /\ pr.localTask # <<>>
       /\ n = 3
       /\ pr.exchanges[1].outcome = "failed"
       /\ pr.exchanges[n].outcome = "ok"
       /\ pr.exchanges[n].body # <<>>
       /\ pr.exchanges[n].body[1].kind = "not_found"
       /\ pr.result.kind = "success"

GenerateDone(pr) == pr.op = "generate" /\ pr.pc = "done"

\* The submission of a generation invocation returned a task identifier.
ReturnedTaskId(pr) == pr.response # <<>> /\ pr.response[1].taskId # 0

RecordedAsPending(pr) ==
  LET rs == RowsOf(tasks, pr.response[1].taskId)
  IN /\ Len(rs) = 1
     /\ rs[1].status = "pending"
     /\ rs[1].api_type = pr.tag

\* C7 as stated: after the submission of a generation tool returned a task
\* identifier T, the store holds exactly one record for T, pending, with the
\* tag of the tool.
C7_RecordAfterEverySubmission ==
  \A p \in Procs :
    (GenerateDone(procs[p]) /\ ReturnedTaskId(procs[p]))
    => RecordedAsPending(procs[p])

\* A step that changes the store is the createTask step of a generation
\* invocation whose submission returned a task identifier, and it appends
\* one record, for that identifier.
CreatedBySubmission ==
  tasks' # tasks =>
    \E p \in Procs :
      /\ procs[p].op = "generate"
      /\ procs[p].pc = "createTask"
      /\ ReturnedTaskId(procs[p])
      /\ procs'[p].pc = "done"
      /\ procs'[p].result.kind = "success"
      /\ Len(tasks') = Len(tasks) + 1
      /\ SubSeq(tasks', 1, Len(tasks)) = tasks
      /\ tasks'[Len(tasks')].task_id = procs[p].response[1].taskId

\* C7 as amended: after a generation tool returned a success envelope for a
\* submission that returned T, the store holds exactly one record for T,
\* pending, with the tag of the tool; a record is created at no other moment.
C7_RecordAfterAcceptedSubmission ==
  /\ [](\A p \in Procs :
          (/\ GenerateDone(procs[p])
           /\ ReturnedTaskId(procs[p])
           /\ procs[p].result.kind = "success")
          => RecordedAsPending(procs[p]))
  /\ [][CreatedBySubmission]_vars

C7_Witness ==
  \E p \in Procs :
    /\ GenerateDone(procs[p])
    /\ ReturnedTaskId(procs[p])
    /\ procs[p].result.kind = "success"
    /\ procs[p].tag = "gpt4o-image"
    /\ Len(tasks) = 1
    /\ tasks[1].api_type = "gpt4o-image"
    /\ tasks[1].status = "pending"

\* C8: the candidate list is the tag's own endpoints followed by the two
\* default fallbacks (playground, then veo), and exactly the default
\* fallbacks for an absent or unrecognized tag; a resolution uses the list of
\* the tag of the local record, so that its first request goes to the first
\* own endpoint of that tag.
C8_CandidatesFromTag ==
  /\ \A t \in ApiTypes :
       endpointsToTry(t)
         = endpointMap[t] \o <<"/playground/recordInfo", "/veo/record-info">>
  /\ endpointsToTry("gpt4o-image")
       = <<"/gpt4o-image/record-info", "/playground/recordInfo",
           "/veo/record-info">>
  /\ endpointsToTry("veo3")
       = <<"/veo/record-info", "/playground/recordInfo", "/veo/record-info">>
  /\ \A t \in {Undef, Null, "", "alpha-video"} :
       endpointsToTry(t) = <<"/playground/recordInfo", "/veo/record-info">>
  /\ \A p \in Procs :
       Resolving(procs[p]) =>
         /\ procs[p].localTask = RowsOf(tasks, procs[p].task_id)
              => procs[p].endpoints
                   = endpointsToTry(ApiTypeOf(RowsOf(tasks, procs[p].task_id)))
         /\ procs[p].localTask # <<>>
              => procs[p].exchanges[1].endpoint
                   = endpointMap[procs[p].localTask[1].api_type][1]
         /\ procs[p].localTask = <<>>
              => procs[p].endpoints
                   = <<"/playground/recordInfo", "/veo/record-info">>

C8_Witness ==
  \E p \in Procs :
    /\ Resolving(procs[p])
    /\ procs[p].localTask # <<>>
    /\ procs[p].localTask[1].api_type = "playground-image"
    /\ procs[p].exchanges[1].endpoint = "/playground/v3/record-info"
    /\ Len(procs[p].endpoints) = 4
    /\ procs[p].endpoints[3] = "/playground/recordInfo"
    /\ procs[p].endpoints[4] = "/veo/record-info"

\* C9: when get_task_status resolved an upstream answer that reports a
\* status for a task that has a local record, the record in the store
\* carries that status, and the reported result URL.
C9_StoreReconciled ==
  \A p \in Procs :
    (/\ Resolved(procs[p])
     /\ procs[p].localTask # <<>>
     /\ procs[p].result.api_response # <<>>
     /\ procs[p].result.api_response[1].kind = "status")
    => /\ RowOf(tasks, procs[p].task_id).status
            = procs[p].result.api_response[1].state
       /\ Truthy(procs[p].result.api_response[1].imageUrl)
            => RowOf(tasks, procs[p].task_id).result_url
                 = procs[p].result.api_response[1].imageUrl

\* C10: updateTask on a task_id that is not in the store is rejected with an
\* error.
C10_UpdateOfMissingFails ==
  (dbRes.op = "updateTask" /\ ~HasTask(tasks, dbRes.task_id))
    => dbRes.err # ""


\* A step of the store that is an updateTask call.
IsUpdateTaskStep ==
  /\ dbRes'.op = "updateTask"
  /\ dbRes' # dbRes \/ tasks' # tasks

\* The update key is present in the partial update.
Present(updates, f) == updates[f] # Undef

\* C11: updateTask changes, in the record of its task_id, only fields among
\* status, result_url and error_message that the partial update carries
\* (plus updated_at); id, task_id, api_type and created_at of every record
\* keep their values, and every other record is untouched.
C11_UpdateFrame ==
  [][IsUpdateTaskStep =>
       LET u == dbRes'.updates[1]
       IN /\ Len(tasks') = Len(tasks)
          /\ \A i \in 1..Len(tasks) :
               /\ tasks[i].task_id # dbRes'.task_id => tasks'[i] = tasks[i]
               /\ tasks'[i].id = tasks[i].id
               /\ tasks'[i].task_id = tasks[i].task_id
               /\ tasks'[i].api_type = tasks[i].api_type
               /\ tasks'[i].created_at = tasks[i].created_at
               /\ \A f \in {"status", "result_url", "error_message"} :
                    ~Present(u, f) => tasks'[i][f] = tasks[i][f]]_vars

\* The last call was a status-only update of a record that has a result
\* URL, next to another record that is still as inserted.
C11_Witness ==
  /\ dbRes.op = "updateTask"
  /\ dbRes.err = ""
  /\ dbRes.updates[1]
       = [status |-> "completed", result_url |-> Undef, error_message |-> Undef]
  /\ Len(tasks) = 2
  /\ HasTask(tasks, dbRes.task_id)
  /\ RowOf(tasks, dbRes.task_id).status = "completed"
  /\ RowOf(tasks, dbRes.task_id).result_url = "url"
  /\ RowOf(tasks, dbRes.task_id).updated_at > RowOf(tasks, dbRes.task_id).created_at
  /\ \E i \in 1..2 :
       /\ tasks[i].task_id # dbRes.task_id
       /\ tasks[i].status = "pending"
       /\ tasks[i].result_url = Null

SameButUpdatedAt(r1, r2) ==
  [r1 EXCEPT !.updated_at = 0] = [r2 EXCEPT !.updated_at = 0]

\* C12: updateTask is idempotent up to updated_at: from every reachable
\* store, for every record, partial update u and times t1 <= t2, applying u
\* at t1 and again at t2 gives the records that applying it at t1 gives,
\* updated_at apart; and a call that repeats the previous call changes at
\* most updated_at.
C12_UpdateIdempotent ==
  /\ [](\A i \in 1..Len(tasks), u \in UpdatesSet :
          \A t1 \in 0..MaxClock, t2 \in 0..MaxClock :
            t1 <= t2 =>
              LET tid == tasks[i].task_id
                  once == updateTask(tasks, tid, u, t1, FALSE).rows
                  twice == updateTask(once, tid, u, t2, FALSE).rows
              IN /\ Len(twice) = Len(once)
                 /\ \A j \in 1..Len(once) : SameButUpdatedAt(twice[j], once[j])
                 /\ twice[i].updated_at >= once[i].updated_at)
  /\ [][(/\ IsUpdateTaskStep
         /\ dbRes.op = "updateTask"
         /\ dbRes.err = ""
         /\ dbRes'.task_id = dbRes.task_id
         /\ dbRes'.updates = dbRes.updates)
        => /\ Len(tasks') = Len(tasks)
           /\ \A j \in 1..Len(tasks) : SameButUpdatedAt(tasks'[j], tasks[j])]_vars

\* The record already holds everything the last update carried, and was
\* touched after the clock advanced.
C12_Witness ==
  /\ dbRes.op = "updateTask"
  /\ dbRes.err = ""
  /\ dbRes.updates[1]
       = [status |-> "completed", result_url |-> "url", error_message |-> "boom"]
  /\ HasTask(tasks, dbRes.task_id)
  /\ RowOf(tasks, dbRes.task_id).status = "completed"
  /\ RowOf(tasks, dbRes.task_id).result_url = "url"
  /\ RowOf(tasks, dbRes.task_id).error_message = "boom"
  /\ RowOf(tasks, dbRes.task_id).created_at = 0
  /\ RowOf(tasks, dbRes.task_id).updated_at = MaxClock

\* C13: a step that changes a record, and every updateTask that carries a
\* truthy field, sets the record's updated_at to the time of the step and
\* keeps its created_at; an insert sets both to the time of the
\* insert; an updateTask whose partial update carries no field, or only
\* falsy ones, changes nothing, updated_at included.
C13_UpdatedAtRefreshed ==
  [][/\ Len(tasks') >= Len(tasks)
     /\ \A i \in 1..Len(tasks) :
          /\ tasks'[i].created_at = tasks[i].created_at
          /\ tasks'[i] # tasks[i] => tasks'[i].updated_at = clock
     /\ \A i \in (Len(tasks) + 1)..Len(tasks') :
          tasks'[i].created_at = clock /\ tasks'[i].updated_at = clock
     /\ (IsUpdateTaskStep /\ updateFields(dbRes'.updates[1]) = {})
          => tasks' = tasks
     /\ (IsUpdateTaskStep /\ updateFields(dbRes'.updates[1]) # {}
           /\ dbRes'.err = "")
          => \A i \in 1..Len(tasks) :
               tasks[i].task_id = dbRes'.task_id => tasks'[i].updated_at = clock]_vars

\* One record was inserted at time 0 and mutated at time 1; the last call
\* was an update of the other record that carried only falsy fields, at a
\* time after its insertion, and its updated_at is still its insertion time.
C13_Witness ==
  /\ dbRes.op = "updateTask"
  /\ dbRes.err = ""
  /\ dbRes.updates[1]
       = [status |-> Undef, result_url |-> "", error_message |-> Undef]
  /\ Len(tasks) = 2
  /\ HasTask(tasks, dbRes.task_id)
  /\ RowOf(tasks, dbRes.task_id).updated_at = 0
  /\ clock = 1
  /\ \E i \in 1..2 :
       /\ tasks[i].task_id # dbRes.task_id
       /\ tasks[i].created_at = 0
       /\ tasks[i].updated_at = 1
       /\ tasks[i].status = "completed"

\* C14: no step changes the api_type of an existing record, and no record
\* disappears.
C14_ApiTypeFixed ==
  [][/\ Len(tasks') >= Len(tasks)
     /\ \A i \in 1..Len(tasks) :
          /\ tasks'[i].task_id = tasks[i].task_id
          /\ tasks'[i].api_type = tasks[i].api_type]_vars

\* Two records with different tags, one of them updated, and a rejected
\* insert of the task_id of that one.
C14_Witness ==
  /\ Len(tasks) = 2
  /\ tasks[1].api_type = "gpt4o-image"
  /\ tasks[2].api_type = "veo3"
  /\ tasks[1].status = "completed"
  /\ tasks[1].updated_at > tasks[1].created_at
  /\ dbRes.op = "createTask"
  /\ dbRes.task_id = tasks[1].task_id
  /\ dbRes.err = "SQLITE_CONSTRAINT"

\* C15: a result_url that is non-null stays non-null in every later state.
C15_ResultUrlNeverCleared ==
  [][/\ Len(tasks') >= Len(tasks)
     /\ \A i \in 1..Len(tasks) :
          tasks[i].result_url # Null => tasks'[i].result_url # Null]_vars

\* The last call was an effective update carrying result_url: null on a
\* record whose result_url is set.
C15_Witness ==
  /\ dbRes.op = "updateTask"
  /\ dbRes.err = ""
  /\ dbRes.updates[1]
       = [status |-> "completed", result_url |-> Null, error_message |-> Undef]
  /\ HasTask(tasks, dbRes.task_id)
  /\ RowOf(tasks, dbRes.task_id).result_url = "url"
  /\ RowOf(tasks, dbRes.task_id).updated_at = 1
  /\ RowOf(tasks, dbRes.task_id).created_at = 0


InFlight(ex) == {i \in 1..Len(ex) : ex[i].outcome = "inflight"}

\* C16: within one status resolution at most one request is in flight, it is
\* the last one issued, every request before it has failed, and a request is
\* issued, one at a time, only in the step in which the previous one
\* completes with a failure.
C16_SequentialProbing ==
  /\ [](\A p \in Procs :
          Resolving(procs[p]) =>
            LET ex == procs[p].exchanges
            IN /\ Cardinality(InFlight(ex)) <= 1
               /\ InFlight(ex) \subseteq {Len(ex)}
               /\ \A i \in 1..(Len(ex) - 1) : ex[i].outcome = "failed")
  /\ [][\A p \in Procs :
          (/\ Resolving(procs[p])
           /\ Resolving(procs'[p])
           /\ Len(procs'[p].exchanges) > Len(procs[p].exchanges))
          => LET ex == procs[p].exchanges
                 n == Len(ex)
             IN /\ Len(procs'[p].exchanges) = n + 1
                /\ ex[n].outcome = "inflight"
                /\ procs'[p].exchanges[n].outcome = "failed"
                /\ procs'[p].exchanges[n + 1].outcome = "inflight"]_vars

\* Two candidates have failed one after the other and the third request is
\* the only one in flight.
C16_Witness ==
  \E p \in Procs :
    LET pr == procs[p]
    IN /\ Resolving(pr)
       /\ pr.pc = "status"
       /\ Len(pr.exchanges) = 3
       /\ pr.exchanges[1].outcome = "failed"
       /\ pr.exchanges[2].outcome = "failed"
       /\ InFlight(pr.exchanges) = {3}

\* The step of a resolution in which its request in flight fails.
ExchangeFails(p) ==
  /\ procs[p].op = "get_task_status"
  /\ procs[p].pc = "status"
  /\ procs'[p] # procs[p]
  /\ procs'[p].exchanges[Len(procs[p].exchanges)].outcome = "failed"

\* C17: when an exchange times out, fails at the network level, is answered
\* with a non-2xx status or with a body that cannot be parsed, the resolver
\* requests the next candidate if one is left; it gives up only after the
\* last candidate, with the transport error and without any payload, so a
\* payload (one reporting the task unknown included) only ever comes from an
\* exchange that succeeded.
C17_TransportFailureContinues ==
  /\ [][\A p \in Procs :
          ExchangeFails(p) =>
            LET pr == procs[p]
                n == Len(pr.exchanges)
                qr == procs'[p]
            IN /\ qr.lastError \in TransportFailures
               /\ IF n < Len(pr.endpoints)
                    THEN /\ qr.pc = "status"
                         /\ Len(qr.exchanges) = n + 1
                         /\ qr.exchanges[n + 1] = Sent(pr.endpoints[n + 1])
                    ELSE /\ qr.pc = "done"
                         /\ qr.exchanges = Answered(pr.exchanges, "failed", <<>>)
                         /\ qr.result.api_response = <<>>]_vars
  /\ [](\A p \in Procs :
          (Resolved(procs[p]) /\ procs[p].result.api_response # <<>>)
          => LET ex == procs[p].exchanges
             IN /\ ex[Len(ex)].outcome = "ok"
                /\ ex[Len(ex)].body = procs[p].result.api_response)

\* The first own endpoint of a playground-image task answered with a
\* non-2xx status and the second own endpoint is being requested.
C17_Witness ==
  \E p \in Procs :
    LET pr == procs[p]
    IN /\ Resolving(pr)
       /\ pr.pc = "status"
       /\ pr.lastError = "non2xx"
       /\ Len(pr.endpoints) = 4
       /\ Len(pr.exchanges) = 2
       /\ pr.exchanges[1] = [endpoint |-> "/playground/v3/record-info",
                             outcome |-> "failed", body |-> <<>>]
       /\ pr.exchanges[2] = Sent("/playground/recordInfo")


\* C18: an invocation whose arguments fail the validation of its handler is
\* rejected in the step of the call: it ends with a thrown error without
\* having issued a request or read the store, the store is unchanged by that
\* step, and nothing is done for it afterwards.
C18_ValidationBeforeEffects ==
  /\ [](\A p \in Procs :
          ~procs[p].argsValid =>
            /\ procs[p].pc = "done"
            /\ procs[p].result.kind = "thrown"
            /\ procs[p].exchanges = <<>>
            /\ procs[p].localTask = <<>>
            /\ procs[p].response = <<>>)
  /\ [][\A p \in Procs :
          (procs'[p] # procs[p] /\ ~procs'[p].argsValid)
          => (Free(p) /\ tasks' = tasks)]_vars

\* A get_task_status without task_id and a generation with arguments its
\* schema refuses were both rejected, and the store is empty.
C18_Witness ==
  /\ tasks = <<>>
  /\ procs["a"].op = "get_task_status"
  /\ ~procs["a"].argsValid
  /\ procs["a"].result.error = "InvalidParams"
  /\ procs["b"].op = "generate"
  /\ ~procs["b"].argsValid
  /\ procs["b"].result.error = "InternalError"
  /\ procs["b"].exchanges = <<>>

\* C19: every invocation of a tool ends with the success/failure envelope;
\* none ends with an error thrown to the protocol layer.
C19_ErrorsEnveloped ==
  \A p \in Procs :
    (procs[p].pc = "done" /\ procs[p].op # "unknown")
    => procs[p].result.kind \in {"success", "failure"}

IsAppError(body) == body # <<>> /\ body[1].kind = "app_error"

\* C20: an answer of the upstream that signals an application error, in a
\* 2xx body or with a non-2xx status and message, ends the invocation, which
\* carries the upstream's code/message to the caller (the body in the
\* envelope, or the error of the failure envelope); no further request is
\* issued for it.  For get_task_status and for submissions alike.
C20_ProviderErrorSurfaced ==
  \A p \in Procs :
    LET pr == procs[p]
        ex == pr.exchanges
        n == Len(ex)
    IN /\ (pr.op = "get_task_status" /\ pr.lastError = "non2xx")
            => (pr.pc = "done" /\ pr.result.error = "non2xx")
       /\ (pr.op \in {"get_task_status", "generate"} /\ n > 0)
            => \A i \in 1..n :
                 (ex[i].outcome = "ok" /\ IsAppError(ex[i].body))
                 => (i = n /\ (pr.pc = "done" =>
                                 pr.result.api_response = ex[i].body))
       /\ (pr.op = "generate" /\ pr.pc = "done" /\ n > 0
             /\ ex[n].outcome = "failed")
            => (n = 1 /\ pr.result.kind = "failure"
                  /\ pr.result.error \in TransportFailures)


\* The step in which the UPDATE statement of caller p runs.
UpdateRuns(p) ==
  /\ procs[p].op = "updateTask"
  /\ procs[p].pc = "run"
  /\ procs'[p].pc = "done"

RecordFields == {"status", "result_url", "error_message"}

C22_NoAutomaticRetry ==
  /\ [](\A p \in Procs :
          LET pr == procs[p]
          IN /\ pr.op \in {"generate", "get_veo3_1080p_video"}
                  => Len(pr.exchanges) <= 1
             /\ pr.op = "get_task_status"
                  => /\ Len(pr.exchanges) <= Len(pr.endpoints)
                     /\ \A i \in 1..Len(pr.exchanges) :
                          pr.exchanges[i].endpoint = pr.endpoints[i]
             /\ pr.pc \in {"done", "createTask"}
                  => \A i \in 1..Len(pr.exchanges) :
                       pr.exchanges[i].outcome # "inflight")
  /\ [][\A p \in Procs :
          procs'[p] # procs[p] =>
            /\ procs[p].pc \in {"submit", "upgrade"}
                 => /\ procs'[p].pc \in {"done", "createTask"}
                    /\ Len(procs'[p].exchanges) = 1
            /\ procs[p].pc = "createTask"
                 => procs'[p].exchanges = procs[p].exchanges
            /\ (procs[p].pc = "status"
                  /\ Len(procs[p].exchanges) = Len(procs[p].endpoints))
                 => procs'[p].pc = "done"]_vars

\* A submission and a resolution have both ended on failures: one failed
\* request for the submission, one failed request per candidate for the
\* resolution.
C22_Witness ==
  /\ procs["b"].op = "generate"
  /\ procs["b"].pc = "done"
  /\ procs["b"].result.kind = "failure"
  /\ procs["b"].exchanges
       = <<[endpoint |-> "generate", outcome |-> "failed", body |-> <<>>]>>
  /\ procs["a"].op = "get_task_status"
  /\ procs["a"].pc = "done"
  /\ Len(procs["a"].endpoints) = 2
  /\ Len(procs["a"].exchanges) = 2
  /\ AllFailed(procs["a"].exchanges)


\* C23: a get_veo3_1080p_video invocation whose request failed, or was
\* answered by the upstream with an error (the upgrade is unavailable), ends
\* with a failure envelope that carries the error.
C23_UpgradeFailsCleanly ==
  \A p \in Procs :
    LET pr == procs[p]
    IN (/\ pr.op = "get_veo3_1080p_video"
        /\ pr.pc = "done"
        /\ pr.exchanges # <<>>
        /\ \/ pr.exchanges[1].outcome = "failed"
           \/ IsAppError(pr.exchanges[1].body))
       => /\ pr.result.kind = "failure"
          /\ pr.result.error # ""


\* The limit handleListTasks hands to the store.
LimitOf(pr) == IF pr.limit = <<>> THEN DefaultListLimit ELSE pr.limit[1]

\* The records a list_tasks invocation asks for: all, or those of a status.
Matching(pr) ==
  {i \in 1..Len(tasks) : Truthy(pr.status) => tasks[i].status = pr.status}

\* C24: list_tasks with a limit >= 0 (20 when none is given) returns
\* min(limit, number of matching records) records of the store, all matching
\* the status filter, ordered by creation, newest first (a record inserted
\* later comes before a record inserted earlier, also when both were created
\* in the same second), and every matching record left out is older than
\* every record returned.
C24_ListNewestFirst ==
  \A p \in Procs :
    (ListDone(procs[p]) /\ LimitOf(procs[p]) >= 0) =>
      LET pr == procs[p]
          res == pr.result.tasks
          returned == {res[k].id : k \in 1..Len(res)}
      IN /\ Len(res) = Min(LimitOf(pr), Cardinality(Matching(pr)))
         /\ returned \subseteq Matching(pr)
         /\ \A k \in 1..Len(res) : res[k] = tasks[res[k].id]
         /\ \A k \in 1..(Len(res) - 1) : res[k].id > res[k + 1].id
         /\ \A i \in Matching(pr) \ returned : \A j \in returned : i < j


StorageErrors == {"SQLITE_IOERR", "SQLITE_CONSTRAINT"}

\* The invocation ended because a call of the store rejected.
StorageFailed(pr) == pr.pc = "done" /\ pr.result.error \in StorageErrors

\* C25: a call of the store that rejects (the insert after an accepted
\* submission, on a storage error or a duplicate task_id; the lookup of
\* get_task_status; the query of list_tasks) ends its invocation with a
\* failure envelope that carries the error, in a step that leaves the store
\* as it was; nothing is thrown, and the caller can start its next
\* invocation.
C25_StorageFailureContained ==
  /\ [](\A p \in Procs :
          StorageFailed(procs[p]) =>
            /\ procs[p].result.kind = "failure"
            /\ procs[p].op \in {"generate", "get_task_status", "list_tasks"}
            /\ procs[p].op = "get_task_status" => procs[p].exchanges = <<>>
            /\ ENABLED StartGenerate(p, "veo3", TRUE))
  /\ [][\A p \in Procs :
          /\ (StorageFailed(procs'[p]) /\ procs'[p] # procs[p])
               => /\ tasks' = tasks
                  /\ procs[p].pc \in {"createTask", "getTask", "list"}
          /\ (procs[p].pc = "createTask" /\ procs'[p] # procs[p]
                /\ HasTask(tasks, procs[p].response[1].taskId))
               => /\ procs'[p].result.kind = "failure"
                  /\ procs'[p].result.error \in StorageErrors
                  /\ tasks' = tasks
          /\ (procs[p].pc \in {"createTask", "getTask", "list"}
                /\ procs'[p] # procs[p] /\ procs'[p].pc = "done")
               => procs'[p].result.kind \in {"success", "failure"}]_vars

\* The insert of a submission the upstream accepted was refused because the
\* task_id is already stored, for another tool; the record is the earlier
\* one, and the other caller's get_task_status ended on a failed lookup.
C25_Witness ==
  /\ procs["b"].op = "generate"
  /\ procs["b"].tag = "veo3"
  /\ procs["b"].result.kind = "failure"
  /\ procs["b"].result.error = "SQLITE_CONSTRAINT"
  /\ procs["b"].response # <<>>
  /\ Len(tasks) = 1
  /\ tasks[1].task_id = procs["b"].response[1].taskId
  /\ tasks[1].api_type = "gpt4o-image"
  /\ procs["a"].op = "get_task_status"
  /\ procs["a"].result.kind = "failure"
  /\ procs["a"].result.error = "SQLITE_IOERR"


\* The first k exchanges of two resolutions had the same outcomes.
SameOutcomes(ex1, ex2, k) ==
  \A j \in 1..k : ex1[j].outcome = ex2[j].outcome

\* C26: two status resolutions whose lookups found records with the same
\* provider tag, or both found none, have the same candidate list, and as
\* long as their exchanges had the same outcomes they request the same
\* endpoints in the same order, whatever their task identifiers are.
C26_SelectionIgnoresTaskId ==
  \A p, q \in Procs :
    (/\ Resolving(procs[p])
     /\ Resolving(procs[q])
     /\ ApiTypeOf(procs[p].localTask) = ApiTypeOf(procs[q].localTask))
    => /\ procs[p].endpoints = procs[q].endpoints
       /\ \A i \in 1..Min(Len(procs[p].exchanges), Len(procs[q].exchanges)) :
            SameOutcomes(procs[p].exchanges, procs[q].exchanges, i - 1)
            => procs[p].exchanges[i].endpoint = procs[q].exchanges[i].endpoint

\* Two resolutions for different task identifiers whose records carry the
\* same tag have both failed on the tag's own endpoint and gone on to the
\* same fallback.
C26_Witness ==
  /\ Resolving(procs["a"])
  /\ Resolving(procs["b"])
  /\ procs["a"].task_id # procs["b"].task_id
  /\ procs["a"].localTask # <<>>
  /\ procs["b"].localTask # <<>>
  /\ procs["a"].localTask[1].api_type = "gpt4o-image"
  /\ procs["b"].localTask[1].api_type = "gpt4o-image"
  /\ Len(procs["a"].exchanges) = 2
  /\ Len(procs["b"].exchanges) = 2
  /\ procs["a"].exchanges[1].outcome = "failed"
  /\ procs["b"].exchanges[1].outcome = "failed"
  /\ procs["a"].exchanges[2].endpoint = "/playground/recordInfo"
  /\ procs["b"].exchanges[2].endpoint = "/playground/recordInfo"


MaxCandidates == 4

\* C27: every get_task_status invocation that was accepted returns an
\* envelope; until then it first waits for the store lookup, with no request
\* issued, then for one status request at a time, and it issues at most as
\* many requests as its candidate list has entries, which are at most 4.
C27_StatusCheckTerminates ==
  /\ \A p \in Procs :
       (procs[p].op = "get_task_status" /\ procs[p].pc \in {"getTask", "status"})
         ~> (/\ procs[p].op = "get_task_status"
             /\ procs[p].pc = "done"
             /\ procs[p].result.kind \in {"success", "failure"})
  /\ [](\A p \in Procs :
          procs[p].op = "get_task_status" =>
            /\ procs[p].pc = "getTask" => procs[p].exchanges = <<>>
            /\ Len(procs[p].exchanges) <= Len(procs[p].endpoints)
            /\ Len(procs[p].endpoints) <= MaxCandidates)
  /\ [](\A t \in ApiTypes \cup {Undef} :
          Len(endpointsToTry(t)) \in 2..MaxCandidates)

\* A resolution for a playground-image task has returned after its four
\* candidates failed.
C27_Witness ==
  \E p \in Procs :
    /\ Resolved(procs[p])
    /\ Len(procs[p].endpoints) = MaxCandidates
    /\ Len(procs[p].exchanges) = MaxCandidates
    /\ AllFailed(procs[p].exchanges)
    /\ procs[p].result.kind = "success"
    /\ procs[p].result.api_response = <<>>


\* C28: the endpoints requested within one status resolution are pairwise
\* distinct.
C28_NoEndpointTwice ==
  \A p \in Procs :
    Resolving(procs[p]) =>
      \A i, j \in 1..Len(procs[p].exchanges) :
        procs[p].exchanges[i].endpoint = procs[p].exchanges[j].endpoint
        => i = j


\* C29: no step of a tool handler changes or removes a record of the store,
\* so every record is as it was inserted: status "pending", no error
\* message, never updated.
C29_HandlersNeverModify ==
  /\ [][/\ Len(tasks') >= Len(tasks)
        /\ \A i \in 1..Len(tasks) : tasks'[i] = tasks[i]]_vars
  /\ [](\A i \in 1..Len(tasks) :
          /\ tasks[i].status = "pending"
          /\ tasks[i].error_message = Null
          /\ tasks[i].updated_at = tasks[i].created_at)

\* A get_task_status returned the upstream's "completed" with a result URL
\* for a task whose record is still pending, without result URL.
C29_Witness ==
  \E p \in Procs :
    /\ Resolved(procs[p])
    /\ procs[p].localTask # <<>>
    /\ procs[p].result.api_response # <<>>
    /\ procs[p].result.api_response[1].state = "completed"
    /\ procs[p].result.api_response[1].imageUrl = "url"
    /\ RowOf(tasks, procs[p].task_id).status = "pending"
    /\ RowOf(tasks, procs[p].task_id).result_url = Null


\* C30: a generation tool that returned a success envelope returned the
\* identifier of a task and the store holds the record of that task.
C30_SuccessMeansRecorded ==
  \A p \in Procs :
    (GenerateDone(procs[p]) /\ procs[p].result.kind = "success")
      => (ReturnedTaskId(procs[p]) /\ RecordedAsPending(procs[p]))

====
